---- MODULE Spec2Model ----
(***************************************************************************)
(* Model of the fitting core of FinalFitsRun3 (package finalfits):         *)
(*   fitting.py  prepare_ranges, robust_fit, fit                           *)
(*   ftest.py    shouldKeepGoing, getResults, filterResults, createEnvelope*)
(*   pdfs.py     FinalFitsPdf (order check, dof, randomize_params)         *)
(*   utils.py    getNBinsFitted                                            *)
(*                                                                         *)
(* Two specifications share the definitions of this module.                *)
(*   SpecFit : one call of fit() (or of robust_fit directly), restart by   *)
(*             restart, and a repetition of the same call                  *)
(*   Spec    : ftest.main, that is getResults for every family, then       *)
(*             filterResults and createEnvelope; a call of fit() is one    *)
(*             step whose outcome is any outcome SpecFit can end in        *)
(*                                                                         *)
(* Units.  Negative log-likelihoods of restarts are integers counted in    *)
(* hundredths (max_diff = 0.01 is 1).  p-values are integers counted in    *)
(* 1/10000 (0.05 is 500, 0.01 is 100).  The axis x starts at 0 and has     *)
(* bins of width 2, so the bin centres are 1, 3, ..., 2*nbins-1.           *)
(***************************************************************************)
EXTENDS Integers, Sequences, FiniteSets, TLC

(***************************************************************************)
(* Bounds of the model                                                     *)
(***************************************************************************)
MaxNll == 2          \* minimised NLL values of a restart are 0..MaxNll
MaxSeed == 1         \* seeds passed by the caller are None or 0..MaxSeed
MaxDirectNFits == 3  \* n_fits of a direct robust_fit call is 2..MaxDirectNFits
MaxBins == 8         \* x has 2 or MaxBins bins
MaxTwoNLLSteps == 2  \* twoNLL is a multiple of TwoNLLStep up to this many steps
TwoNLLStep == 10
MaxMaxDof == 8       \* max_dof is 1..MaxMaxDof
MaxOrderExcess == 1  \* orders asked of a constructor go this far outside 1..max_order

(***************************************************************************)
(* Program constants                                                       *)
(***************************************************************************)
NoSeed == -1             \* seed=None
DefaultNFits == 8        \* robust_fit(n_fits=8)
DefaultMaxNFits == 1024  \* robust_fit(max_n_fits=1024)
max_diff == 1            \* max_diff = 0.01
gof_threshold == 100     \* gof_threshold=0.01
ftest_threshold == 500   \* ftest_threshold=0.05
base_max_order == 5      \* FinalFitsPdf.max_order
DCB_max_order == 1       \* DCB.max_order

NoNll == -1              \* min() of a slice that no restart has filled yet
NoPval == -1             \* a record whose "ftest_pval" key is not set yet
NoIndex == -1            \* pdfIndex before createEnvelope has set it
DefaultVals == 0         \* parameter values of a freshly constructed pdf

(***************************************************************************)
(* Helpers                                                                 *)
(***************************************************************************)
MinNll(a, b) == IF a = NoNll THEN b ELSE IF b = NoNll THEN a ELSE IF a < b THEN a ELSE b
Abs(v) == IF v < 0 THEN 0 - v ELSE v
Last(s) == s[Len(s)]
Front(s) == SubSeq(s, 1, Len(s) - 1)

RECURSIVE Flatten(_)
Flatten(ss) == IF ss = <<>> THEN <<>> ELSE Head(ss) \o Flatten(Tail(ss))

RECURSIVE SeqMax(_)
SeqMax(s) == IF Len(s) = 1 THEN s[1]
             ELSE LET m == SeqMax(Tail(s)) IN IF s[1] > m THEN s[1] ELSE m

(***************************************************************************)
(* ROOT.TMath.Prob(chi2, ndf): upper tail of the chi-square distribution,  *)
(* floored to 1/10000, for ndf 1..10 (rows) and chi2 1..40 (columns).      *)
(* TMath::Prob returns 0 for ndf <= 0 and for chi2 < 0, and 1 for chi2 = 0.*)
(***************************************************************************)
ChiSquareTail ==
  << <<3173, 1572, 832, 455, 253, 143, 81, 46, 26, 15, 9, 5, 3, 1, 1, 0, 0, 0, 0, 0, 0, 0, 0, 0, 0, 0, 0, 0, 0, 0, 0, 0, 0, 0, 0, 0, 0, 0, 0, 0>>,
     <<6065, 3678, 2231, 1353, 820, 497, 301, 183, 111, 67, 40, 24, 15, 9, 5, 3, 2, 1, 0, 0, 0, 0, 0, 0, 0, 0, 0, 0, 0, 0, 0, 0, 0, 0, 0, 0, 0, 0, 0, 0>>,
     <<8012, 5724, 3916, 2614, 1717, 1116, 718, 460, 292, 185, 117, 73, 46, 29, 18, 11, 7, 4, 2, 1, 1, 0, 0, 0, 0, 0, 0, 0, 0, 0, 0, 0, 0, 0, 0, 0, 0, 0, 0, 0>>,
     <<9097, 7357, 5578, 4060, 2872, 1991, 1358, 915, 610, 404, 265, 173, 112, 72, 47, 30, 19, 12, 7, 4, 3, 2, 1, 0, 0, 0, 0, 0, 0, 0, 0, 0, 0, 0, 0, 0, 0, 0, 0, 0>>,
     <<9625, 8491, 6999, 5494, 4158, 3062, 2206, 1562, 1090, 752, 513, 347, 233, 156, 103, 68, 44, 29, 19, 12, 8, 5, 3, 2, 1, 0, 0, 0, 0, 0, 0, 0, 0, 0, 0, 0, 0, 0, 0, 0>>,
     <<9856, 9196, 8088, 6766, 5438, 4231, 3208, 2381, 1735, 1246, 883, 619, 430, 296, 202, 137, 92, 62, 41, 27, 18, 12, 7, 5, 3, 2, 1, 0, 0, 0, 0, 0, 0, 0, 0, 0, 0, 0, 0, 0>>,
     <<9948, 9598, 8850, 7797, 6599, 5397, 4288, 3325, 2526, 1885, 1386, 1005, 721, 511, 359, 251, 173, 119, 81, 55, 37, 25, 17, 11, 7, 5, 3, 2, 1, 0, 0, 0, 0, 0, 0, 0, 0, 0, 0, 0>>,
     <<9982, 9810, 9343, 8571, 7575, 6472, 5366, 4334, 3422, 2650, 2016, 1512, 1118, 817, 591, 423, 301, 212, 148, 103, 71, 49, 33, 22, 15, 10, 7, 4, 3, 2, 1, 0, 0, 0, 0, 0, 0, 0, 0, 0>>,
     <<9994, 9914, 9642, 9114, 8343, 7399, 6371, 5341, 4372, 3504, 2757, 2133, 1626, 1223, 909, 668, 487, 351, 251, 179, 126, 88, 61, 43, 29, 20, 13, 9, 6, 4, 2, 1, 1, 0, 0, 0, 0, 0, 0, 0>>,
     <<9998, 9963, 9814, 9473, 8911, 8152, 7254, 6288, 5321, 4404, 3575, 2850, 2236, 1729, 1320, 996, 743, 549, 402, 292, 210, 151, 107, 76, 53, 37, 26, 18, 12, 8, 5, 4, 2, 1, 1, 0, 0, 0, 0, 0>> >>

Prob(chi2, ndf) ==
  IF ndf <= 0 THEN 0
  ELSE IF chi2 < 0 THEN 0
  ELSE IF chi2 = 0 THEN 10000
  ELSE IF chi2 > 40 THEN 0
  ELSE ChiSquareTail[ndf][chi2]

(***************************************************************************)
(* pdfs.py: the shapes                                                     *)
(***************************************************************************)
available_pdfs == {"Gaussian", "DCB", "Bernstein", "Exponential", "Power", "ExpPoly", "Laurent"}

\* subclasses of FinalFitsPdfSum
IsSum(name) == name \in {"Gaussian", "Exponential", "Power"}

\* len(default_shape_bounds)
NShapeBounds(name) ==
  CASE name = "Gaussian" -> 2
    [] name = "DCB" -> 6
    [] OTHER -> 1

max_order(name) == IF name = "DCB" THEN DCB_max_order ELSE base_max_order

\* len(range(n))
RangeLen(n) == IF n < 0 THEN 0 ELSE n

\* len(final_params_names): shape_params_names, the c{i} of a sum, and "norm"
final_params_names(name, ord) ==
  RangeLen(ord) * NShapeBounds(name) + (IF IsSum(name) THEN RangeLen(ord - 1) ELSE 0) + 1

\* get_dof: len(free_params); every final parameter is a non-constant
\* RooRealVar of the workspace (norm included), x is left out
get_dof(name, ord) == final_params_names(name, ord)

BadCharacterRange_Never(ord) == FALSE

\* expand_config: re.fullmatch(k + "[1-{order}]?", name) is handed a pattern
\* whose character range runs backwards when order < 1, and raises re.error
BadCharacterRange(ord) == ord < 1

Constructed_NoMaxOrder(name, ord) ==
  IF BadCharacterRange(ord)
  THEN [raised |-> "re.error", params |-> 0, roopdf |-> FALSE]
  ELSE IF name = "Laurent"
  THEN [raised |-> "AttributeError", params |-> final_params_names(name, ord),
        roopdf |-> FALSE]
  ELSE [raised |-> "ok", params |-> final_params_names(name, ord), roopdf |-> TRUE]

\* __init__: the exception it raises ("ok" if none), the number of parameters
\* init_shape_params has put in the workspace and whether init_roopdf has
\* put the density there
Constructed(name, ord) ==
  IF ord > max_order(name)
  THEN [raised |-> "ValueError", params |-> 0, roopdf |-> FALSE]
  ELSE IF BadCharacterRange(ord)
  THEN [raised |-> "re.error", params |-> 0, roopdf |-> FALSE]
  ELSE IF name = "Laurent"
  THEN [raised |-> "AttributeError", params |-> final_params_names(name, ord),
        roopdf |-> FALSE]
  ELSE [raised |-> "ok", params |-> final_params_names(name, ord), roopdf |-> TRUE]

\* __init__: "ok", or the exception the constructor raises
Construct(name, ord) == Constructed(name, ord).raised

\* default_shape_bounds of one shape parameter of each family (sigma, sigmaLR
\* or a) as (default value, min, max), in 1/10000
shape_bounds(name) ==
  CASE name = "Gaussian" -> <<15000, 10000, 50000>>
    [] name = "DCB" -> <<13000, 10000, 50000>>
    [] name = "Exponential" -> <<-200, -500, 0>>
    [] name = "Power" -> <<-10000, -20000, 0>>
    [] name = "Bernstein" -> <<1000, 0, 10000>>
    [] name = "ExpPoly" -> <<-5000, -10000, 0>>
    [] OTHER -> <<5000, 0, 10000>>

\* np.isclose(a, b, rtol=0.01): |a - b| <= atol + rtol * |b|, the default
\* atol of 1e-8 being far below the unit
isclose(a, b) == 100 * (IF a < b THEN b - a ELSE a - b) <= (IF b < 0 THEN 0 - b ELSE b)

\* check_bounds: the number of log.warning calls it makes for a parameter
\* with value v
check_bounds(name, v) ==
  IF isclose(v, shape_bounds(name)[2]) \/ isclose(v, shape_bounds(name)[3]) THEN 2 ELSE 0

(***************************************************************************)
(* The external model engine, as far as robust_fit observes it.            *)
(*   Starts  : the points a randomisation can put the free parameters at   *)
(*   surface : for each point, the NLL the optimiser ends at from there    *)
(*   Fitted  : the parameter vector the optimiser ends at from a point     *)
(***************************************************************************)
Starts == {1, 2}
Points == {DefaultVals} \cup Starts
Nlls == 0..MaxNll
Surfaces == [Points -> Nlls]
Seeds == {NoSeed} \cup (0..MaxSeed)

Fitted(point) == 10 + point

\* np.random.default_rng(seed).uniform(...): a fixed function of the seed.
\* Seeds that are multiples of 12 draw point 1, every other seed point 2.
Rng(s) == IF s % 12 = 0 THEN 1 ELSE 2

\* pdfs.py randomize_params: the points it can leave the free parameters at
randomize_params(sd) == IF sd = NoSeed THEN Starts ELSE {Rng(sd)}

\* a value within 1% (relative) of the nonzero bound of the shape parameter
NearBound(name) ==
  LET b == IF shape_bounds(name)[3] # 0 THEN shape_bounds(name)[3] ELSE shape_bounds(name)[2]
  IN b - b \div 100

\* p.getVal() of the shape parameter in a parameter vector: from start point 2
\* the optimiser ends pinned near the bound, otherwise at the default value
ParamVal(name, vals) ==
  IF vals = Fitted(2) THEN NearBound(name) ELSE shape_bounds(name)[1]

(***************************************************************************)
(* utils.py getNBinsFitted, fitting.py prepare_ranges                      *)
(***************************************************************************)
XMax(nb) == 2 * nb
BinCenters(nb) == {2 * k - 1 : k \in 1..nb}

getNBinsFitted(nb, ranges) ==
  Cardinality({c \in BinCenters(nb) :
                 \E k \in 1..Len(ranges) : c > ranges[k][1] /\ c < ranges[k][2]})

\* the ranges the optimiser and createNLL are restricted to
prepare_ranges(nb, ranges) == IF ranges = <<>> THEN << <<0, XMax(nb)>> >> ELSE ranges

FitRangeChoices(nb) ==
  { <<>>,
    << <<0, XMax(nb)>> >>,
    << <<0, 3>>, <<XMax(nb) - 2, XMax(nb)>> >>,
    << <<0, 4>>, <<2, XMax(nb)>> >> }

\* the ranges main is run with: none, the whole axis, a blinded middle
MainRangeChoices(nb) ==
  { <<>>,
    << <<0, XMax(nb)>> >>,
    << <<0, 4>>, <<XMax(nb) - 4, XMax(nb)>> >> }

TwoNLLs == {k * TwoNLLStep : k \in 0..MaxTwoNLLSteps}

\* fit, lines 80-82: the record fit() returns
fit_dof(nb, ranges, dof) == getNBinsFitted(nb, ranges) - dof

fit_result(nb, ranges, dof, t) ==
  [twoNLL |-> t, gof_pval |-> Prob(t, fit_dof(nb, ranges, dof))]

(***************************************************************************)
(* State                                                                   *)
(***************************************************************************)
VARIABLES
  \* the axis and the ranges handed to fit()
  nbins,                  \* x.getBins()
  fit_ranges,             \* the fit_ranges argument, a tuple of (low, high)
  \* fit() and robust_fit
  pc,                     \* position in fit / robust_fit
  kind,                   \* "fit": fit() was called; "direct": robust_fit was
  method,                 \* the method argument of fit()
  pdf,                    \* the model: [name, order]
  n_fits0,                \* n_fits of the outermost robust_fit call
  n_fits, max_n_fits, recursive, seed,   \* arguments of the current robust_fit call
  i,                      \* index of the restart loop
  nll1, nll2,             \* min(nlls[:n_fits//2]), min(nlls[n_fits//2:]) so far
  best_nll,               \* nlls[np.argmin(nlls)] so far
  best_free_params_vals,  \* free_params_vals[np.argmin(nlls)] so far
  free_params_vals,       \* pdf.free_params_vals
  surface,                \* likelihood surface of (pdf, datahist)
  attempts,               \* n_fits of every attempt of this call, in order
  call_min_nll,           \* lowest NLL of any restart of this call
  seen1, seen2,           \* NLLs of this attempt's restarts with index < n_fits//2, >= n_fits//2
  last_seed,              \* argument of the last randomize_params
  fit_ranges_str,         \* what prepare_ranges returned
  record,                 \* what fit() returned
  err,                    \* the exception that left fit / robust_fit
  run, prev,              \* the call is repeated once; outcome of the first call
  \* ftest.main
  mpc,                    \* position in main / getResults
  pdf_names, max_dof, do_all_orders,     \* arguments of main
  fam,                    \* index in pdf_names of the family being searched
  order,                  \* getResults: order
  results,                \* getResults: results
  all_results,            \* main: results, one sequence per family done
  gof_results,            \* what filterByGof returned
  filtered,               \* what filterResults returned
  pdfIndex, multipdf,     \* createEnvelope: active index, pdfs of the multi-pdf
  merr,                   \* the exception that left main
  \* the model instance handed to fit()
  w_params,               \* number of parameters __init__ has put in pdf.w
  w_roopdf,               \* __init__ has put the density in pdf.w
  bounds_warnings,        \* log.warning calls made by check_bounds
  \* calls made since fit() or robust_fit was entered
  randomize_calls,        \* calls of pdf.randomize_params
  fitTo_calls             \* calls of fitTo

xvars == <<nbins, fit_ranges>>
fvars == <<pc, kind, method, pdf, n_fits0, n_fits, max_n_fits, recursive, seed, i, nll1,
           nll2, best_nll, best_free_params_vals, free_params_vals, surface, attempts,
           call_min_nll, seen1, seen2, last_seed, fit_ranges_str, record, err, run, prev>>
mvars == <<mpc, pdf_names, max_dof, do_all_orders, fam, order, results, all_results,
           gof_results, filtered, pdfIndex, multipdf, merr>>
kvars == <<randomize_calls, fitTo_calls>>
cvars == <<w_params, w_roopdf, bounds_warnings, kvars>>
vars == <<xvars, fvars, mvars, cvars>>

NoRecord == [twoNLL |-> NoPval, gof_pval |-> NoPval]
NoPrev == [outcome |-> "none", attempts |-> <<>>, vals |-> DefaultVals]

\* main is not running
MainIdle ==
  /\ mpc = "idle"
  /\ pdf_names = <<>>
  /\ max_dof = 0
  /\ do_all_orders = FALSE
  /\ fam = 0
  /\ order = 0
  /\ results = <<>>
  /\ all_results = <<>>
  /\ gof_results = <<>>
  /\ filtered = <<>>
  /\ pdfIndex = NoIndex
  /\ multipdf = <<>>
  /\ merr = "none"

(***************************************************************************)
(* fitting.py: robust_fit                                                  *)
(***************************************************************************)
RestartSeed_Unseeded(sd, idx) == NoSeed

RestartSeed_ByAttempt(sd, idx) ==
  IF sd = NoSeed THEN NoSeed ELSE sd + idx + (Len(attempts) - 1)

\* the seed robust_fit hands to restart idx, line 35
RestartSeed(sd, idx) == IF sd = NoSeed THEN NoSeed ELSE sd + idx

\* restart idx belongs to nlls[:n//2], lines 45-46
InFirstHalf(idx, n) == idx < n \div 2

\* np.argmin: a later restart replaces the best one only if strictly lower
Improves(nll, best) == best = NoNll \/ nll < best

Unstable_Signed(a, b) == a - b > max_diff

\* the instability test, lines 47-50
Unstable(a, b) == Abs(a - b) > max_diff

MayEscalate_OffByOne(rec, n, maxn) == rec /\ n <= maxn

\* the escalation test, line 53
MayEscalate(rec, n, maxn) == rec /\ n < maxn

\* the restart count of the retry, line 54
NFitsMore(n) == n * 2

KnownMethods == {"robust", "from_defaults", "randomize"}

Randomizes_Always(m) == TRUE

\* fit, line 71: only method randomize draws new starting values
Randomizes(m) == m = "randomize"

Methods == KnownMethods \cup {"simplex"}

FitPdfs == {[name |-> "Bernstein", order |-> 1], [name |-> "Gaussian", order |-> 1]}

\* the orders a caller asks a constructor for
OrdersAsked(name) == (0 - MaxOrderExcess)..(max_order(name) + MaxOrderExcess)

\* the (family, order) pairs whose construction raises
FailingPdfs ==
  {q \in [name : available_pdfs,
          order : (0 - MaxOrderExcess)..(base_max_order + MaxOrderExcess)] :
     /\ q.order \in OrdersAsked(q.name)
     /\ q.order \notin 1..max_order(q.name) \/ q.name = "Laurent"}

DirectConfigs ==
  {[n_fits |-> n, max_n_fits |-> 2 * MaxDirectNFits, recursive |-> r] :
     n \in 2..MaxDirectNFits, r \in BOOLEAN}

\* state of a robust_fit frame at line 33
LoopReset ==
  /\ i' = 0
  /\ nll1' = NoNll
  /\ nll2' = NoNll
  /\ best_nll' = NoNll
  /\ seen1' = {}
  /\ seen2' = {}

FitInit ==
  /\ MainIdle
  /\ kind \in {"fit", "direct"}
  /\ seed \in Seeds
  /\ surface \in Surfaces
  /\ IF kind = "fit"
     THEN /\ pc = "construct"
          /\ method \in Methods
          /\ pdf \in FitPdfs \cup FailingPdfs
          /\ nbins \in {2, MaxBins}
          /\ fit_ranges \in FitRangeChoices(nbins)
          \* a pdf that cannot be constructed is never handed to fit()
          /\ pdf \in FailingPdfs =>
                /\ method = "robust"
                /\ seed = NoSeed
                /\ surface = [p \in Points |-> 0]
                /\ nbins = MaxBins
                /\ fit_ranges = <<>>
          /\ n_fits = DefaultNFits
          /\ max_n_fits = DefaultMaxNFits
          /\ recursive = TRUE
          /\ attempts = <<>>
          /\ w_params = 0
          /\ w_roopdf = FALSE
     ELSE /\ pc = "robust_loop"
          /\ w_params = Constructed("Bernstein", 1).params
          /\ w_roopdf = Constructed("Bernstein", 1).roopdf
          /\ method = "robust"
          /\ pdf = [name |-> "Bernstein", order |-> 1]
          /\ nbins = MaxBins
          /\ fit_ranges = <<>>
          /\ \E c \in DirectConfigs :
               /\ n_fits = c.n_fits
               /\ max_n_fits = c.max_n_fits
               /\ recursive = c.recursive
          /\ attempts = <<n_fits>>
  \* the optimiser starts at the default values only in method from_defaults
  /\ (kind = "direct" \/ method # "from_defaults") => surface[DefaultVals] = 0
  /\ n_fits0 = n_fits
  /\ i = 0
  /\ nll1 = NoNll
  /\ nll2 = NoNll
  /\ best_nll = NoNll
  /\ best_free_params_vals = DefaultVals
  /\ free_params_vals = DefaultVals
  /\ call_min_nll = NoNll
  /\ seen1 = {}
  /\ seen2 = {}
  /\ last_seed = NoSeed
  /\ fit_ranges_str = <<>>
  /\ record = NoRecord
  /\ err = "none"
  /\ run = 1
  /\ prev = NoPrev
  /\ bounds_warnings = 0
  /\ randomize_calls = 0
  /\ fitTo_calls = 0

\* the caller constructs the model, pdfs.py __init__; fit() is called with it
\* if the constructor returns
FitConstruct ==
  /\ pc = "construct"
  /\ w_params' = Constructed(pdf.name, pdf.order).params
  /\ w_roopdf' = Constructed(pdf.name, pdf.order).roopdf
  /\ IF Construct(pdf.name, pdf.order) = "ok"
     THEN pc' = "fit_entry" /\ err' = err
     ELSE pc' = "raised" /\ err' = Construct(pdf.name, pdf.order)
  /\ UNCHANGED <<kind, method, pdf, n_fits0, n_fits, max_n_fits, recursive, seed, i, nll1,
                 nll2, best_nll, best_free_params_vals, free_params_vals, surface,
                 attempts, call_min_nll, seen1, seen2, last_seed, fit_ranges_str, record,
                 run, prev>>
  /\ UNCHANGED <<xvars, mvars, bounds_warnings, kvars>>

FitUnknownMethod_NoAssert ==
  /\ pc = "fit_entry"
  /\ method \notin {"robust", "from_defaults", "randomize"}
  /\ fit_ranges_str' = prepare_ranges(nbins, fit_ranges)
  /\ free_params_vals' = Fitted(free_params_vals)
  /\ pc' = "fit_fitted"
  /\ UNCHANGED <<kind, method, pdf, n_fits0, n_fits, max_n_fits, recursive, seed, i, nll1,
                 nll2, best_nll, best_free_params_vals, surface, attempts, call_min_nll,
                 seen1, seen2, last_seed, record, err, run, prev>>
  /\ fitTo_calls' = fitTo_calls + 1
  /\ UNCHANGED <<xvars, mvars, w_params, w_roopdf, bounds_warnings, randomize_calls>>

\* fit, lines 61-67: the method is none of the three
FitUnknownMethod ==
  /\ pc = "fit_entry"
  /\ method \notin KnownMethods
  /\ fit_ranges_str' = prepare_ranges(nbins, fit_ranges)
  /\ pc' = "raised"
  /\ err' = "AssertionError"
  /\ UNCHANGED <<kind, method, pdf, n_fits0, n_fits, max_n_fits, recursive, seed, i, nll1,
                 nll2, best_nll, best_free_params_vals, free_params_vals, surface,
                 attempts, call_min_nll, seen1, seen2, last_seed, record, run, prev>>
  /\ UNCHANGED <<xvars, mvars, cvars>>

\* fit, lines 61-69, and robust_fit, lines 30-33
FitCallRobust ==
  /\ pc = "fit_entry"
  /\ method = "robust"
  /\ fit_ranges_str' = prepare_ranges(nbins, fit_ranges)
  /\ attempts' = <<n_fits>>
  /\ pc' = "robust_loop"
  /\ UNCHANGED <<kind, method, pdf, n_fits0, n_fits, max_n_fits, recursive, seed, i, nll1,
                 nll2, best_nll, best_free_params_vals, free_params_vals, surface,
                 call_min_nll, seen1, seen2, last_seed, record, err, run, prev>>
  /\ UNCHANGED <<xvars, mvars, cvars>>

\* fit, lines 61-74: one fit, from the defaults or from one random draw
FitSingle ==
  /\ pc = "fit_entry"
  /\ method \in {"from_defaults", "randomize"}
  /\ fit_ranges_str' = prepare_ranges(nbins, fit_ranges)
  /\ \E point \in (IF Randomizes(method) THEN randomize_params(seed)
                   ELSE {free_params_vals}) :
       free_params_vals' = Fitted(point)
  /\ last_seed' = IF Randomizes(method) THEN seed ELSE last_seed
  /\ randomize_calls' = IF Randomizes(method) THEN randomize_calls + 1 ELSE randomize_calls
  /\ fitTo_calls' = fitTo_calls + 1
  /\ pc' = "fit_fitted"
  /\ UNCHANGED <<kind, method, pdf, n_fits0, n_fits, max_n_fits, recursive, seed, i, nll1,
                 nll2, best_nll, best_free_params_vals, surface, attempts,
                 call_min_nll, seen1, seen2,
                 record, err, run, prev>>
  /\ UNCHANGED <<xvars, mvars, w_params, w_roopdf, bounds_warnings>>

\* robust_fit, lines 34-38: one pass of the restart loop
Restart ==
  /\ pc = "robust_loop"
  /\ i < n_fits
  /\ \E point \in randomize_params(RestartSeed(seed, i)) :
       LET nll == surface[point]
           vals == Fitted(point)
       IN /\ free_params_vals' = vals
          /\ nll1' = IF InFirstHalf(i, n_fits) THEN MinNll(nll1, nll) ELSE nll1
          /\ nll2' = IF InFirstHalf(i, n_fits) THEN nll2 ELSE MinNll(nll2, nll)
          /\ best_nll' = IF Improves(nll, best_nll) THEN nll ELSE best_nll
          /\ best_free_params_vals' =
               IF Improves(nll, best_nll) THEN vals ELSE best_free_params_vals
          /\ call_min_nll' = MinNll(call_min_nll, nll)
          /\ seen1' = IF i < n_fits \div 2 THEN seen1 \cup {nll} ELSE seen1
          /\ seen2' = IF i >= n_fits \div 2 THEN seen2 \cup {nll} ELSE seen2
  /\ last_seed' = RestartSeed(seed, i)
  /\ randomize_calls' = randomize_calls + 1
  /\ fitTo_calls' = fitTo_calls + 1
  /\ i' = i + 1
  /\ UNCHANGED <<pc, kind, method, pdf, n_fits0, n_fits, max_n_fits, recursive, seed,
                 surface, attempts, fit_ranges_str, record, err, run, prev>>
  /\ UNCHANGED <<xvars, mvars, w_params, w_roopdf, bounds_warnings>>

\* robust_fit, lines 40-50, stable: the best restart is installed, every frame returns
Stable ==
  /\ pc = "robust_loop"
  /\ i = n_fits
  /\ ~Unstable(nll1, nll2)
  /\ free_params_vals' = best_free_params_vals
  /\ pc' = "robust_returned"
  /\ UNCHANGED <<kind, method, pdf, n_fits0, n_fits, max_n_fits, recursive, seed, i, nll1,
                 nll2, best_nll, best_free_params_vals, surface, attempts,
                 call_min_nll, seen1, seen2,
                 last_seed, fit_ranges_str, record, err, run, prev>>
  /\ UNCHANGED <<xvars, mvars, cvars>>

\* robust_fit, lines 40-56: unstable below the ceiling, the recursive call begins
Escalate ==
  /\ pc = "robust_loop"
  /\ i = n_fits
  /\ Unstable(nll1, nll2)
  /\ MayEscalate(recursive, n_fits, max_n_fits)
  /\ free_params_vals' = best_free_params_vals
  /\ n_fits' = NFitsMore(n_fits)
  /\ recursive' = TRUE
  /\ attempts' = Append(attempts, NFitsMore(n_fits))
  /\ LoopReset
  /\ UNCHANGED <<pc, kind, method, pdf, n_fits0, max_n_fits, seed, best_free_params_vals,
                 surface, call_min_nll, last_seed, fit_ranges_str, record, err, run, prev>>
  /\ UNCHANGED <<xvars, mvars, cvars>>

\* robust_fit, lines 40-58: unstable and no retry, the exception leaves every frame
Raise ==
  /\ pc = "robust_loop"
  /\ i = n_fits
  /\ Unstable(nll1, nll2)
  /\ ~MayEscalate(recursive, n_fits, max_n_fits)
  /\ free_params_vals' = best_free_params_vals
  /\ pc' = "raised"
  /\ err' = "Exception"
  /\ UNCHANGED <<kind, method, pdf, n_fits0, n_fits, max_n_fits, recursive, seed, i, nll1,
                 nll2, best_nll, best_free_params_vals, surface, attempts,
                 call_min_nll, seen1, seen2,
                 last_seed, fit_ranges_str, record, run, prev>>
  /\ UNCHANGED <<xvars, mvars, cvars>>

FitCheckBounds_Raises ==
  /\ \/ pc = "fit_fitted"
     \/ pc = "robust_returned" /\ kind = "fit"
  /\ bounds_warnings' = check_bounds(pdf.name, ParamVal(pdf.name, free_params_vals))
  /\ IF bounds_warnings' > 0
     THEN pc' = "raised" /\ err' = "ValueError"
     ELSE pc' = "fit_gof" /\ err' = err
  /\ UNCHANGED <<kind, method, pdf, n_fits0, n_fits, max_n_fits, recursive, seed, i, nll1,
                 nll2, best_nll, best_free_params_vals, free_params_vals, surface,
                 attempts, call_min_nll, seen1, seen2, last_seed, fit_ranges_str, record,
                 run, prev>>
  /\ UNCHANGED <<xvars, mvars, w_params, w_roopdf, kvars>>

\* fit, line 76: check_bounds only logs
FitCheckBounds ==
  /\ \/ pc = "fit_fitted"
     \/ pc = "robust_returned" /\ kind = "fit"
  /\ bounds_warnings' = check_bounds(pdf.name, ParamVal(pdf.name, free_params_vals))
  /\ pc' = "fit_gof"
  /\ UNCHANGED <<kind, method, pdf, n_fits0, n_fits, max_n_fits, recursive, seed, i, nll1,
                 nll2, best_nll, best_free_params_vals, free_params_vals, surface,
                 attempts, call_min_nll, seen1, seen2, last_seed, fit_ranges_str, record, err, run, prev>>
  /\ UNCHANGED <<xvars, mvars, w_params, w_roopdf, kvars>>

\* fit, lines 78-82: the statistic, its dof and the p-value
FitGof ==
  /\ pc = "fit_gof"
  /\ \E t \in TwoNLLs :
       record' = fit_result(nbins, fit_ranges, get_dof(pdf.name, pdf.order), t)
  /\ pc' = "fit_returned"
  /\ UNCHANGED <<kind, method, pdf, n_fits0, n_fits, max_n_fits, recursive, seed, i, nll1,
                 nll2, best_nll, best_free_params_vals, free_params_vals, surface,
                 attempts, call_min_nll, seen1, seen2, last_seed, fit_ranges_str, err, run, prev>>
  /\ UNCHANGED <<xvars, mvars, cvars>>

CallEnded ==
  \/ pc \in {"raised", "fit_returned"}
  \/ pc = "robust_returned" /\ kind = "direct"

\* the caller repeats a seeded call (or a short direct one) with the same
\* arguments on an identically constructed model and the same dataset
CallAgain ==
  /\ CallEnded
  /\ run = 1
  /\ seed # NoSeed \/ kind = "direct"
  /\ prev' = [outcome |-> pc, attempts |-> attempts, vals |-> free_params_vals]
  /\ run' = 2
  /\ pc' = IF kind = "fit" THEN "construct" ELSE "robust_loop"
  /\ n_fits' = n_fits0
  /\ attempts' = IF kind = "fit" THEN <<>> ELSE <<n_fits0>>
  /\ LoopReset
  /\ best_free_params_vals' = DefaultVals
  /\ free_params_vals' = DefaultVals
  /\ call_min_nll' = NoNll
  /\ last_seed' = NoSeed
  /\ fit_ranges_str' = <<>>
  /\ record' = NoRecord
  /\ err' = "none"
  /\ w_params' = IF kind = "fit" THEN 0 ELSE w_params
  /\ w_roopdf' = IF kind = "fit" THEN FALSE ELSE w_roopdf
  /\ bounds_warnings' = 0
  /\ randomize_calls' = 0
  /\ fitTo_calls' = 0
  /\ UNCHANGED <<kind, method, pdf, n_fits0, max_n_fits, recursive, seed, surface>>
  /\ UNCHANGED <<xvars, mvars>>

FitNext ==
  \/ FitConstruct
  \/ FitUnknownMethod
  \/ FitCallRobust
  \/ FitSingle
  \/ Restart
  \/ Stable
  \/ Escalate
  \/ Raise
  \/ FitCheckBounds
  \/ FitGof
  \/ CallAgain

SpecFit == FitInit /\ [][FitNext]_vars

(***************************************************************************)
(* ftest.py                                                                *)
(***************************************************************************)
shouldKeepGoing_Or(res, all_orders, md) ==
  IF res = <<>> THEN TRUE
  ELSE IF Last(res).dof = md THEN FALSE
  ELSE IF Last(res).dof > md THEN FALSE
  ELSE IF (~all_orders) /\ (Last(res).ftest_pval > ftest_threshold
                            \/ Last(res).gof_pval > gof_threshold) THEN FALSE
  ELSE TRUE

\* shouldKeepGoing, lines 12-23: the value it returns
shouldKeepGoing(res, all_orders, md) ==
  IF res = <<>> THEN TRUE
  ELSE IF Last(res).dof = md THEN FALSE
  ELSE IF Last(res).dof > md THEN FALSE
  ELSE IF (~all_orders) /\ Last(res).ftest_pval > ftest_threshold
                        /\ Last(res).gof_pval > gof_threshold THEN FALSE
  ELSE TRUE

AfterKeepGoing_NoDelete(res, md) == res

AfterKeepGoing_AtCeiling(res, md) ==
  IF res # <<>> /\ Last(res).dof >= md THEN Front(res) ELSE res

\* shouldKeepGoing, lines 17-18: what it leaves in the caller's list
AfterKeepGoing(res, md) ==
  IF res # <<>> /\ Last(res).dof # md /\ Last(res).dof > md THEN Front(res) ELSE res

\* getResults, lines 31-33: the record appended for a fit that returned fr
NewRecord(name, ord, fr) ==
  [pdf |-> [name |-> name, order |-> ord], order |-> ord, dof |-> get_dof(name, ord),
   twoNLL |-> fr.twoNLL, gof_pval |-> fr.gof_pval, ftest_pval |-> NoPval]

Clamp_None(dchi2) == dchi2

\* getResults, lines 40-42
Clamp(dchi2) == IF dchi2 < 0 THEN 0 ELSE dchi2

\* getResults, lines 37-44: the F-test p-value of the last record
FtestPval(res) ==
  IF Len(res) = 1 THEN 0
  ELSE Prob(Clamp(res[Len(res) - 1].twoNLL - Last(res).twoNLL),
            Last(res).dof - res[Len(res) - 1].dof)

SetFtest(res, p) == [res EXCEPT ![Len(res)].ftest_pval = p]

PassesGof(r) == r.gof_pval > gof_threshold
PassesFtest(r) == r.ftest_pval < ftest_threshold

\* index of the first record that passes gof, 0 if there is none
FirstPassing(rs) ==
  IF \E k \in 1..Len(rs) : PassesGof(rs[k])
  THEN CHOOSE k \in 1..Len(rs) :
         PassesGof(rs[k]) /\ \A j \in 1..(k - 1) : ~PassesGof(rs[j])
  ELSE 0

ForceFirst_AllPassing(rs) ==
  [k \in 1..Len(rs) |->
     IF PassesGof(rs[k]) THEN [rs[k] EXCEPT !.ftest_pval = 0] ELSE rs[k]]

\* filterByGof, line 61: the first passing record is a dict shared with the
\* caller's list, so the assignment shows there as well
ForceFirst(rs) ==
  IF FirstPassing(rs) = 0 THEN rs ELSE [rs EXCEPT ![FirstPassing(rs)].ftest_pval = 0]

filterByGof_NoForce(rs) == SelectSeq(rs, PassesGof)

\* filterByGof, lines 59-61, for one family
filterByGof(rs) == SelectSeq(ForceFirst(rs), PassesGof)

filterByFtest_KeepAll(rs) == rs

\* filterByFtest, line 67, for one family
filterByFtest(rs) == SelectSeq(rs, PassesFtest)

ActiveIndex_Last(gofs) ==
  (CHOOSE k \in 1..Len(gofs) :
     gofs[k] = SeqMax(gofs) /\ \A j \in (k + 1)..Len(gofs) : gofs[j] # SeqMax(gofs)) - 1

\* createEnvelope, line 82: gofs.index(max(gofs))
ActiveIndex(gofs) ==
  (CHOOSE k \in 1..Len(gofs) :
     gofs[k] = SeqMax(gofs) /\ \A j \in 1..(k - 1) : gofs[j] # SeqMax(gofs)) - 1

SearchFamilies == available_pdfs

\* pdf_names: any one family, or two different families of PairFamilies
PairFamilies == {"Gaussian", "Power", "DCB"}

NameSeqs ==
  {<<a>> : a \in SearchFamilies}
  \cup {<<ab[1], ab[2]>> : ab \in {q \in PairFamilies \X PairFamilies : q[1] # q[2]}}

\* no call of fit() or robust_fit is being followed restart by restart
FitIdle ==
  /\ pc = "idle"
  /\ kind = "fit"
  /\ method = "robust"
  /\ pdf = [name |-> "none", order |-> 0]
  /\ n_fits0 = DefaultNFits
  /\ n_fits = DefaultNFits
  /\ max_n_fits = DefaultMaxNFits
  /\ recursive = TRUE
  /\ seed = NoSeed
  /\ i = 0
  /\ nll1 = NoNll
  /\ nll2 = NoNll
  /\ best_nll = NoNll
  /\ best_free_params_vals = DefaultVals
  /\ free_params_vals = DefaultVals
  /\ surface = [p \in Points |-> 0]
  /\ attempts = <<>>
  /\ call_min_nll = NoNll
  /\ seen1 = {}
  /\ seen2 = {}
  /\ last_seed = NoSeed
  /\ fit_ranges_str = <<>>
  /\ record = NoRecord
  /\ err = "none"
  /\ run = 1
  /\ prev = NoPrev
  /\ w_params = 0
  /\ w_roopdf = FALSE
  /\ bounds_warnings = 0
  /\ randomize_calls = 0
  /\ fitTo_calls = 0

\* main, lines 86-92, up to the first call of getResults (lines 26-27)
MainInit ==
  /\ FitIdle
  /\ nbins = MaxBins
  /\ fit_ranges \in MainRangeChoices(nbins)
  /\ pdf_names \in NameSeqs
  /\ max_dof \in 1..MaxMaxDof
  /\ do_all_orders \in BOOLEAN
  /\ mpc = "check"
  /\ fam = 1
  /\ order = 1
  /\ results = <<>>
  /\ all_results = <<>>
  /\ gof_results = <<>>
  /\ filtered = <<>>
  /\ pdfIndex = NoIndex
  /\ multipdf = <<>>
  /\ merr = "none"

\* getResults, line 28: the loop test
GR_Check ==
  /\ mpc = "check"
  /\ results' = AfterKeepGoing(results, max_dof)
  /\ mpc' = IF shouldKeepGoing(results, do_all_orders, max_dof) THEN "fit" ELSE "return"
  /\ UNCHANGED <<pdf_names, max_dof, do_all_orders, fam, order, all_results, gof_results,
                 filtered, pdfIndex, multipdf, merr>>
  /\ UNCHANGED <<xvars, fvars, cvars>>

\* getResults, line 29: the constructor raises, and so do getResults and main
GR_ConstructRaises ==
  /\ mpc = "fit"
  /\ Construct(pdf_names[fam], order) # "ok"
  /\ mpc' = "raised"
  /\ merr' = Construct(pdf_names[fam], order)
  /\ UNCHANGED <<pdf_names, max_dof, do_all_orders, fam, order, results, all_results,
                 gof_results, filtered, pdfIndex, multipdf>>
  /\ UNCHANGED <<xvars, fvars, cvars>>

GR_FitRaises_Partial ==
  /\ mpc = "fit"
  /\ Construct(pdf_names[fam], order) = "ok"
  /\ mpc' = "return"
  /\ merr' = "Exception"
  /\ UNCHANGED <<pdf_names, max_dof, do_all_orders, fam, order, results, all_results,
                 gof_results, filtered, pdfIndex, multipdf>>
  /\ UNCHANGED <<xvars, fvars, cvars>>

\* getResults, lines 29-32: robust_fit raises inside fit(), and so do getResults and main
GR_FitRaises ==
  /\ mpc = "fit"
  /\ Construct(pdf_names[fam], order) = "ok"
  /\ mpc' = "raised"
  /\ merr' = "Exception"
  /\ UNCHANGED <<pdf_names, max_dof, do_all_orders, fam, order, results, all_results,
                 gof_results, filtered, pdfIndex, multipdf>>
  /\ UNCHANGED <<xvars, fvars, cvars>>

\* getResults, lines 29-35: fit() returns and the record is appended
GR_FitAppend ==
  /\ mpc = "fit"
  /\ Construct(pdf_names[fam], order) = "ok"
  /\ \E t \in TwoNLLs :
       results' = Append(results,
                    NewRecord(pdf_names[fam], order,
                      fit_result(nbins, fit_ranges, get_dof(pdf_names[fam], order), t)))
  /\ mpc' = "ftest"
  /\ UNCHANGED <<pdf_names, max_dof, do_all_orders, fam, order, all_results, gof_results,
                 filtered, pdfIndex, multipdf, merr>>
  /\ UNCHANGED <<xvars, fvars, cvars>>

GR_Ftest_SkipOrder ==
  /\ mpc = "ftest"
  /\ results' = SetFtest(results, FtestPval(results))
  /\ order' = order + 2
  /\ mpc' = "check"
  /\ UNCHANGED <<pdf_names, max_dof, do_all_orders, fam, all_results, gof_results,
                 filtered, pdfIndex, multipdf, merr>>
  /\ UNCHANGED <<xvars, fvars, cvars>>

\* getResults, lines 37-49: the F-test p-value is stored, the order increased
GR_Ftest ==
  /\ mpc = "ftest"
  /\ results' = SetFtest(results, FtestPval(results))
  /\ order' = order + 1
  /\ mpc' = "check"
  /\ UNCHANGED <<pdf_names, max_dof, do_all_orders, fam, all_results, gof_results,
                 filtered, pdfIndex, multipdf, merr>>
  /\ UNCHANGED <<xvars, fvars, cvars>>

\* getResults, lines 51-54, and main, line 92: next family, or on to the filter
GR_Return ==
  /\ mpc = "return"
  /\ all_results' = Append(all_results, results)
  /\ IF fam < Len(pdf_names)
     THEN /\ fam' = fam + 1
          /\ order' = 1
          /\ results' = <<>>
          /\ mpc' = "check"
     ELSE /\ mpc' = "filter_gof"
          /\ UNCHANGED <<fam, order, results>>
  /\ UNCHANGED <<pdf_names, max_dof, do_all_orders, gof_results, filtered, pdfIndex,
                 multipdf, merr>>
  /\ UNCHANGED <<xvars, fvars, cvars>>

\* filterResults, line 71
FilterByGof ==
  /\ mpc = "filter_gof"
  /\ gof_results' = [k \in 1..Len(all_results) |-> filterByGof(all_results[k])]
  /\ all_results' = [k \in 1..Len(all_results) |-> ForceFirst(all_results[k])]
  /\ mpc' = "filter_ftest"
  /\ UNCHANGED <<pdf_names, max_dof, do_all_orders, fam, order, results, filtered,
                 pdfIndex, multipdf, merr>>
  /\ UNCHANGED <<xvars, fvars, cvars>>

\* filterResults, lines 72-73
FilterByFtest ==
  /\ mpc = "filter_ftest"
  /\ filtered' = [k \in 1..Len(gof_results) |-> filterByFtest(gof_results[k])]
  /\ mpc' = "envelope"
  /\ UNCHANGED <<pdf_names, max_dof, do_all_orders, fam, order, results, all_results,
                 gof_results, pdfIndex, multipdf, merr>>
  /\ UNCHANGED <<xvars, fvars, cvars>>

\* createEnvelope, lines 76-84
CreateEnvelope ==
  /\ mpc = "envelope"
  /\ Flatten(filtered) # <<>>
  /\ LET flattened_results == Flatten(filtered)
         gofs == [k \in 1..Len(flattened_results) |-> flattened_results[k].gof_pval]
     IN /\ multipdf' = [k \in 1..Len(flattened_results) |-> flattened_results[k].pdf]
        /\ pdfIndex' = ActiveIndex(gofs)
  /\ mpc' = "done"
  /\ UNCHANGED <<pdf_names, max_dof, do_all_orders, fam, order, results, all_results,
                 gof_results, filtered, merr>>
  /\ UNCHANGED <<xvars, fvars, cvars>>

CreateEnvelopeRaises_Returns ==
  /\ mpc = "envelope"
  /\ Flatten(filtered) = <<>>
  /\ multipdf' = <<>>
  /\ pdfIndex' = 0
  /\ mpc' = "done"
  /\ UNCHANGED <<pdf_names, max_dof, do_all_orders, fam, order, results, all_results,
                 gof_results, filtered, merr>>
  /\ UNCHANGED <<xvars, fvars, cvars>>

\* createEnvelope, line 82: max() of an empty list
CreateEnvelopeRaises ==
  /\ mpc = "envelope"
  /\ Flatten(filtered) = <<>>
  /\ mpc' = "raised"
  /\ merr' = "ValueError"
  /\ UNCHANGED <<pdf_names, max_dof, do_all_orders, fam, order, results, all_results,
                 gof_results, filtered, pdfIndex, multipdf>>
  /\ UNCHANGED <<xvars, fvars, cvars>>

Next ==
  \/ GR_Check
  \/ GR_ConstructRaises
  \/ GR_FitRaises
  \/ GR_FitAppend
  \/ GR_Ftest
  \/ GR_Return
  \/ FilterByGof
  \/ FilterByFtest
  \/ CreateEnvelope
  \/ CreateEnvelopeRaises

Spec == MainInit /\ [][Next]_vars

(***************************************************************************)
(* Fairness: fit() is synchronous, single-threaded code; a step that can   *)
(* be taken is taken.                                                      *)
(***************************************************************************)
FairSpecFit == SpecFit /\ WF_vars(FitNext)

\* main is synchronous, single-threaded code as well
FairSpec == Spec /\ WF_vars(Next)

(***************************************************************************)
(* Claims on robust_fit and fit (SpecFit)                                  *)
(***************************************************************************)
FitAttempts == <<8, 16, 32, 64, 128, 256, 512, 1024>>

RobustFitEnded == pc \in {"robust_returned", "raised"}

C1_Doubling ==
  /\ \A k \in 2..Len(attempts) : attempts[k] = 2 * attempts[k - 1]
  /\ kind = "fit" =>
       /\ Len(attempts) <= Len(FitAttempts)
       /\ \A k \in 1..Len(attempts) : attempts[k] = FitAttempts[k]
  /\ (kind = "fit" /\ pc = "raised" /\ err = "Exception") => attempts = FitAttempts

C1_AtCeiling ==
  (pc = "robust_loop" /\ kind = "fit" /\ i = n_fits /\ Abs(nll1 - nll2) > max_diff)
    => IF n_fits = 1024
       THEN pc' = "raised" /\ err' = "Exception"
       ELSE pc' = "robust_loop" /\ n_fits' = 2 * n_fits /\ i' = 0

\* C1: while every attempt is unstable each retry of robust_fit uses twice
\* the restart count of the attempt before (8, 16, ..., 1024 when fit()
\* starts it), the unstable attempt at 1024 raises, and every call of
\* robust_fit ends.
C1_Escalation ==
  /\ []C1_Doubling
  /\ [][C1_AtCeiling]_vars
  /\ (pc = "robust_loop") ~> RobustFitEnded

C1_Witness ==
  kind = "fit" /\ pc = "raised" /\ err = "Exception" /\ attempts = FitAttempts

SetMin(S) == CHOOSE m \in S : \A v \in S : m <= v

\* the split-half difference of the attempt that just ran all its restarts,
\* from the NLLs recorded per restart index
HalfDiff == Abs(SetMin(seen1) - SetMin(seen2))

\* C2: robust_fit returns normally only if the last attempt it ran was
\* stable (the minima of the restarts with index < n_fits//2 and of the
\* others differ by at most 0.01); when it raises, the last attempt was
\* unstable.
C2_NoSilentUnconverged ==
  /\ (pc \in {"robust_returned", "fit_gof", "fit_returned"} /\ attempts # <<>>)
       => (i = Last(attempts) /\ HalfDiff <= max_diff)
  /\ (pc = "raised" /\ err = "Exception")
       => (i = Last(attempts) /\ HalfDiff > max_diff)

C2_Witness ==
  pc = "robust_returned" /\ i = Last(attempts) /\ HalfDiff = max_diff

\* the NLL the optimiser reached at a fitted parameter vector
NllAt(vals) == surface[vals - 10]

\* C8: when robust_fit returns normally the free parameters are those of the
\* restart with the lowest NLL among all restarts of the call, those of the
\* earlier unstable attempts included.
C8_BestOfAllRestarts ==
  pc = "robust_returned" => NllAt(free_params_vals) = call_min_nll

\* C9: a second call of fit(method="robust", seed=s) with the same seed on an
\* identically constructed model makes the same attempts, ends the same way
\* and leaves the same parameter values as the first.
C9_Deterministic ==
  (run = 2 /\ seed # NoSeed /\ kind = "fit" /\ method = "robust"
     /\ pc \in {"fit_returned", "raised"})
    => (attempts = prev.attempts /\ pc = prev.outcome /\ free_params_vals = prev.vals)

C9_Witness ==
  /\ run = 2 /\ seed # NoSeed /\ kind = "fit" /\ method = "robust"
  /\ pc = "fit_returned" /\ Len(attempts) >= 2

\* C10: fit() returns no record when the goodness-of-fit dof (bins inside
\* the fit ranges minus the model's dof) is <= 0.
C10_FailsOnNonPositiveDof ==
  pc = "fit_returned" => fit_dof(nbins, fit_ranges, get_dof(pdf.name, pdf.order)) > 0

(***************************************************************************)
(* Claims on getResults, filterResults and createEnvelope (Spec)           *)
(***************************************************************************)
DofIncreasesBelowCeiling(rs) ==
  /\ \A k \in 2..Len(rs) : rs[k - 1].dof < rs[k].dof
  /\ \A k \in 1..Len(rs) : rs[k].dof <= max_dof

\* C3: every sequence getResults returns has strictly increasing dof and no
\* record with a dof above max_dof.
C3_MonotoneDof ==
  /\ mpc = "return" => DofIncreasesBelowCeiling(results)
  /\ \A k \in 1..Len(all_results) : DofIncreasesBelowCeiling(all_results[k])

\* a sequence is returned from which the overshooting last record was removed
C3_Witness ==
  mpc = "return" /\ Len(results) >= 2 /\ order = Len(results) + 2

\* C4: once a record is appended and its ftest_pval set, the search goes on
\* to the next order if and only if the record's dof is below max_dof and
\* (do_all_orders is set, or not both ftest_pval > 0.05 and gof_pval > 0.01).
C4_StoppingRule ==
  [][(mpc = "check" /\ results # <<>>)
       => /\ Last(results).ftest_pval # NoPval
          /\ (mpc' = "fit") <=>
               /\ Last(results).dof < max_dof
               /\ \/ do_all_orders
                  \/ ~(Last(results).ftest_pval > 500 /\ Last(results).gof_pval > 100)
          /\ mpc' \in {"fit", "return"}]_vars

\* the significance stop fired below the dof ceiling
C4_Witness ==
  /\ mpc = "return" /\ results # <<>> /\ ~do_all_orders
  /\ Last(results).dof < max_dof
  /\ Last(results).ftest_pval > 500 /\ Last(results).gof_pval > 100

\* position, from 0, of record j of family f in the candidate list
\* (pdf_names has at most two entries)
Position(f, j) == (IF f = 1 THEN 0 ELSE Len(filtered[1])) + j - 1

Candidates == UNION {{<<f, j>> : j \in 1..Len(filtered[f])} : f \in 1..Len(filtered)}

\* C5: the active index is the lowest position, families in input order and
\* records in sequence order, of a surviving record with the maximum gof_pval,
\* and the multi-pdf holds that record's model at that position.
C5_ActiveIndexIsMaxGof ==
  mpc = "done" =>
    \E q \in Candidates :
      /\ pdfIndex = Position(q[1], q[2])
      /\ \A r \in Candidates :
           /\ filtered[r[1]][r[2]].gof_pval <= filtered[q[1]][q[2]].gof_pval
           /\ Position(r[1], r[2]) < pdfIndex
                => filtered[r[1]][r[2]].gof_pval < filtered[q[1]][q[2]].gof_pval
      /\ multipdf[pdfIndex + 1] = filtered[q[1]][q[2]].pdf
      /\ multipdf[pdfIndex + 1] = [name |-> pdf_names[q[1]], order |-> filtered[q[1]][q[2]].order]

\* the best candidate is not the first one and a candidate of the second
\* family ties with it
C5_Witness ==
  /\ mpc = "done" /\ Len(filtered) = 2
  /\ pdfIndex >= 1 /\ pdfIndex < Len(filtered[1])
  /\ \E j \in 1..Len(filtered[2]) :
       filtered[2][j].gof_pval = filtered[1][pdfIndex + 1].gof_pval

FilterDone == mpc \in {"envelope", "done"}

\* indices of the records of a family that the claim says are kept
KeptIndices(rs) ==
  {j \in 1..Len(rs) :
     /\ rs[j].gof_pval > 100
     /\ \/ \A h \in 1..(j - 1) : rs[h].gof_pval <= 100
        \/ rs[j].ftest_pval < 500}

NthOf(S, m) == CHOOSE j \in S : Cardinality({h \in S : h <= j}) = m

\* C6: filterResults keeps, per family and in the original order, exactly
\* the records with gof_pval > 0.01 that are the first such record of the
\* family (its ftest_pval forced to 0) or have ftest_pval < 0.05.
C6_FilterExact ==
  FilterDone =>
    /\ Len(filtered) = Len(all_results)
    /\ \A k \in 1..Len(filtered) :
         LET rs == all_results[k]
             kept == KeptIndices(rs)
         IN /\ Len(filtered[k]) = Cardinality(kept)
            /\ \A m \in 1..Len(filtered[k]) :
                 LET j == NthOf(kept, m)
                     first == \A h \in 1..(j - 1) : rs[h].gof_pval <= 100
                 IN /\ filtered[k][m].order = rs[j].order
                    /\ filtered[k][m].dof = rs[j].dof
                    /\ filtered[k][m].twoNLL = rs[j].twoNLL
                    /\ filtered[k][m].gof_pval = rs[j].gof_pval
                    /\ filtered[k][m].ftest_pval = IF first THEN 0 ELSE rs[j].ftest_pval

\* in one family a record fails gof, the first passing one is kept and a
\* later passing one is dropped by the F-test
C6_Witness ==
  /\ mpc = "envelope"
  /\ \E k \in 1..Len(filtered) :
       /\ Len(filtered[k]) >= 1
       /\ Len(filtered[k]) < Len(gof_results[k])
       /\ Len(gof_results[k]) < Len(all_results[k])
       /\ filtered[k][1].order > 1

\* the records of family k that are candidates without being the family's
\* lowest-order record with gof_pval > 0.01
LaterCandidates(k) ==
  {m \in 1..Len(filtered[k]) :
     \E j \in 1..Len(all_results[k]) :
       all_results[k][j].gof_pval > 100 /\ all_results[k][j].order < filtered[k][m].order}

\* C7 as claimed: every later candidate has ftest_pval < 0.05 and its
\* immediately simpler record had gof_pval <= 0.01.
C7_OnlyWhenStillNeeded ==
  mpc \in {"envelope", "done"} =>
    \A k \in 1..Len(filtered) : \A m \in LaterCandidates(k) :
      /\ filtered[k][m].ftest_pval < 500
      /\ all_results[k][filtered[k][m].order - 1].gof_pval <= 100

\* C7: every later candidate has ftest_pval < 0.05 and, unless do_all_orders
\* is set, its immediately simpler record did not have both ftest_pval > 0.05
\* and gof_pval > 0.01; that simpler record may well have gof_pval > 0.01.
C7_OnlyWhenJustified ==
  mpc \in {"envelope", "done"} =>
    \A k \in 1..Len(filtered) : \A m \in LaterCandidates(k) :
      /\ filtered[k][m].ftest_pval < 500
      /\ filtered[k][m].order >= 2
      /\ all_results[k][filtered[k][m].order - 1].order = filtered[k][m].order - 1
      /\ ~do_all_orders =>
           ~(/\ all_results[k][filtered[k][m].order - 1].ftest_pval > 500
             /\ all_results[k][filtered[k][m].order - 1].gof_pval > 100)

\* a later candidate whose simpler record already had an acceptable gof
C7_Witness ==
  /\ mpc = "envelope" /\ ~do_all_orders
  /\ \E k \in 1..Len(filtered) : \E m \in LaterCandidates(k) :
       all_results[k][filtered[k][m].order - 1].gof_pval > 100

(***************************************************************************)
(* Claims on errors: getResults, fit and the constructor                   *)
(***************************************************************************)
C11_NoSequence ==
  merr = "Exception" =>
    /\ mpc = "raised"
    /\ Len(all_results) = fam - 1
    /\ gof_results = <<>> /\ filtered = <<>>
    /\ multipdf = <<>> /\ pdfIndex = NoIndex

\* C11: when fit() raises the fatal non-convergence error inside getResults,
\* getResults and main end with that error: no sequence is returned for the
\* family being searched (neither the partial list nor a substitute record),
\* nothing is filtered and no envelope is made, and main stays ended.
C11_FatalErrorPropagates ==
  /\ []C11_NoSequence
  /\ [][merr = "Exception" => (mpc' = "raised" /\ all_results' = all_results)]_vars

\* the fatal error arrives when records of lower orders are already in the list
C11_Witness ==
  mpc = "raised" /\ merr = "Exception" /\ Len(results) >= 2 /\ fam = 2

\* C12: fit() with a method other than robust, from_defaults and randomize
\* ends with an error and nothing else: no randomisation, no run of the
\* optimiser, the parameter values as they were, no attempt, no record.
C12_UnknownMethodFails ==
  (kind = "fit" /\ method \notin {"robust", "from_defaults", "randomize"}
     /\ pc \notin {"construct", "fit_entry"})
    => /\ pc = "raised" /\ err = "AssertionError"
       /\ free_params_vals = DefaultVals
       /\ last_seed = NoSeed
       /\ attempts = <<>> /\ i = 0
       /\ record = NoRecord /\ bounds_warnings = 0

C12_Witness ==
  kind = "fit" /\ method = "simplex" /\ pc = "raised" /\ err = "AssertionError"

\* C13: a constructor asked for an order above max_order or below 1 raises
\* before a parameter or the density is in the workspace, and a density
\* exists only for an order in 1..max_order.
C13_OrderInRange ==
  /\ (kind = "fit" /\ pc # "construct" /\ pdf.order \notin 1..max_order(pdf.name))
       => /\ pc = "raised" /\ err \in {"ValueError", "re.error"}
          /\ w_params = 0 /\ ~w_roopdf
          /\ free_params_vals = DefaultVals /\ record = NoRecord
  /\ w_roopdf => pdf.order \in 1..max_order(pdf.name)

\* the order is below 1
C13_Witness ==
  kind = "fit" /\ pc = "raised" /\ pdf.order < 1 /\ w_params = 0 /\ ~w_roopdf

(***************************************************************************)
(* Claims on the search of one family (Spec)                               *)
(***************************************************************************)
\* getResults has not returned for the family being searched, and main has
\* ended with an error
SearchRaised == mpc = "raised" /\ Len(all_results) < Len(pdf_names)

\* C14: getResults never ends with an error because the order after the
\* family's maximum order was asked for: at the maximum order it returns the
\* records fitted so far.
C14_ReturnsAtMaxOrder ==
  SearchRaised => order <= max_order(pdf_names[fam])

\* C15: for Gaussian with max_dof = 5 and do_all_orders = False, when the
\* order-1 record has gof_pval > 0.01, getResults returns exactly that record,
\* with dof = 2, and no order above 1 was fitted.
C15_GaussianStopsAtOrder1 ==
  (mpc = "return" /\ pdf_names[fam] = "Gaussian" /\ max_dof = 5 /\ ~do_all_orders
     /\ results # <<>> /\ results[1].gof_pval > 100)
    => /\ Len(results) = 1
       /\ results[1].order = 1
       /\ results[1].dof = 2
       /\ order = 2

PowerScenario ==
  mpc = "return" /\ pdf_names[fam] = "Power" /\ max_dof = 5 /\ do_all_orders

\* C16 as claimed: for Power with max_dof = 5 in exhaustive mode getResults
\* returns exactly max_dof records with strictly increasing dof.
C16_PowerExactlyMaxDof ==
  PowerScenario => (Len(results) = max_dof /\ DofIncreasesBelowCeiling(results))

\* C16: for Power with max_dof = 5 in exhaustive mode getResults returns the
\* records of the consecutive orders 1..n, n >= 1, with strictly increasing
\* dof none of which exceeds max_dof, fewer than max_dof of them; the order
\* after n was not fitted if the dof of order n is max_dof, and otherwise it
\* was fitted, had a dof above max_dof and its record was discarded.
C16_PowerWithinMaxDof ==
  PowerScenario =>
    /\ Len(results) >= 1 /\ Len(results) < max_dof
    /\ \A k \in 1..Len(results) : results[k].order = k
    /\ DofIncreasesBelowCeiling(results)
    /\ IF Last(results).dof = max_dof
       THEN order = Len(results) + 1
       ELSE order = Len(results) + 2 /\ get_dof("Power", order - 1) > max_dof

\* the record of the last order fitted was discarded
C16_Witness ==
  PowerScenario /\ Len(results) >= 2 /\ order = Len(results) + 2

\* the records of results whose ftest_pval getResults has stored
Stored(rs) == {k \in 1..Len(rs) : rs[k].ftest_pval # NoPval}

NegativeDeltaClamped(rs) ==
  \A k \in Stored(rs) :
    /\ rs[k].ftest_pval >= 0 /\ rs[k].ftest_pval <= 10000
    /\ (k >= 2 /\ rs[k].twoNLL > rs[k - 1].twoNLL)
         => /\ rs[k].ftest_pval = Prob(0, rs[k].dof - rs[k - 1].dof)
            /\ rs[k].ftest_pval = 10000

\* C18: while getResults runs and when it has returned, every stored
\* ftest_pval lies in [0, 1], and that of a record whose twoNLL is larger than
\* the previous record's is the p-value of a delta of 0 with the difference
\* of the two dof, that is 1.
C18_NegativeDeltaClamped ==
  mpc \in {"check", "fit", "ftest", "return", "filter_gof"} =>
    /\ NegativeDeltaClamped(results)
    /\ \A f \in 1..Len(all_results) : NegativeDeltaClamped(all_results[f])

\* a record whose twoNLL is larger than the previous record's is returned
C18_Witness ==
  /\ mpc = "return" /\ Len(results) >= 2
  /\ Last(results).twoNLL > results[Len(results) - 1].twoNLL
  /\ Last(results).ftest_pval = 10000

\* C20: the dof of a record of a sum family of order k with b shape
\* parameters per component is k*b + (k-1), that of a record of a polynomial
\* family of order k is k.
C20_DofFormula ==
  \A k \in 1..Len(results) :
    LET r == results[k] IN
      /\ r.pdf.name \in {"Gaussian", "Exponential", "Power"}
           => r.dof = r.order * NShapeBounds(r.pdf.name) + (r.order - 1)
      /\ r.pdf.name \in {"Bernstein", "ExpPoly"} => r.dof = r.order

(***************************************************************************)
(* Claims on check_bounds and the goodness-of-fit dof (SpecFit)            *)
(***************************************************************************)
AtCheckBounds == pc = "fit_fitted" \/ (pc = "robust_returned" /\ kind = "fit")

\* the shape parameter is within 1% (relative) of one of its bounds
Saturated ==
  \/ isclose(ParamVal(pdf.name, free_params_vals), shape_bounds(pdf.name)[2])
  \/ isclose(ParamVal(pdf.name, free_params_vals), shape_bounds(pdf.name)[3])

C17_RecordStillReturned ==
  /\ (pc \in {"fit_gof", "fit_returned"} /\ Saturated) => (bounds_warnings > 0 /\ err = "none")
  /\ pc = "fit_returned" =>
       /\ record # NoRecord
       /\ record.gof_pval =
            Prob(record.twoNLL, fit_dof(nbins, fit_ranges, get_dof(pdf.name, pdf.order)))

\* C17: check_bounds neither raises nor changes a parameter value, also when
\* a free parameter is within 1% of a bound (it then logs warnings), and
\* fit() goes on to return its record.
C17_BoundSaturationNonFatal ==
  /\ []C17_RecordStillReturned
  /\ [][AtCheckBounds =>
           /\ pc' = "fit_gof"
           /\ err' = "none"
           /\ free_params_vals' = free_params_vals]_vars

\* fit() returned a record with a usable p-value for a parameter at its bound
C17_Witness ==
  pc = "fit_returned" /\ Saturated /\ bounds_warnings > 0 /\ record.gof_pval > 0

\* the bins whose centre lies in at least one range taken as closed interval
NBinsClosed(nb, ranges) ==
  Cardinality({c \in BinCenters(nb) :
                 \E k \in 1..Len(ranges) : c >= ranges[k][1] /\ c <= ranges[k][2]})

\* C19: the p-value fit() returns is computed with (bins whose centre lies in
\* at least one fit range taken as a closed interval, each bin once) minus
\* the model's dof.
C19_ClosedIntervalBins ==
  pc = "fit_returned" =>
    record.gof_pval =
      Prob(record.twoNLL,
           NBinsClosed(nbins, fit_ranges) - get_dof(pdf.name, pdf.order))

(***************************************************************************)
(* Claims on the closure test, the fit modes and the restart seeds         *)
(* (SpecFit)                                                               *)
(***************************************************************************)
\* C21: for every available shape, every order from 1 to the shape's
\* max_order and each of the three methods, the closure test has a model to
\* fit: the constructor returns, so that the fit of the dataset generated
\* from the same shape can be compared with its chi2/dof threshold.
C21_EveryShapeFits ==
  (/\ kind = "fit"
   /\ pdf.name \in available_pdfs
   /\ pdf.order \in 1..max_order(pdf.name)
   /\ method \in KnownMethods)
  => ~(pc = "raised" /\ w_roopdf = FALSE)

AfterOptimization == pc \in {"robust_returned", "fit_fitted", "fit_gof", "fit_returned"}

C24_ModeCalls ==
  (kind = "fit" /\ AfterOptimization) =>
     /\ method = "from_defaults" => (randomize_calls = 0 /\ fitTo_calls = 1)
     /\ method = "randomize" =>
          (randomize_calls = 1 /\ fitTo_calls = 1 /\ last_seed = seed)
     /\ method = "robust" =>
          (randomize_calls = fitTo_calls /\ fitTo_calls >= DefaultNFits)

C24_Order ==
  /\ fitTo_calls' > fitTo_calls => pc \in {"fit_entry", "robust_loop"}
  /\ randomize_calls' > randomize_calls =>
       (pc \in {"fit_entry", "robust_loop"} /\ fitTo_calls' = fitTo_calls + 1)
  /\ (kind = "fit" /\ pc = "fit_entry" /\ method = "from_defaults") =>
       free_params_vals' = Fitted(free_params_vals)
  /\ (run' = run /\ bounds_warnings' # bounds_warnings) =>
       pc \in {"robust_returned", "fit_fitted"}
  /\ (run' = run /\ record' # record) => pc = "fit_gof"
  /\ (run' = run /\ pc \in {"fit_gof", "fit_returned"}) => UNCHANGED kvars

\* C24: method from_defaults makes no randomization and exactly one optimizer
\* call, from the current parameter values; method randomize makes exactly
\* one randomization, with the caller's seed, and exactly one optimizer
\* call; method robust makes at least 8 restarts, each one randomization
\* followed by one optimizer call; in every mode the bounds check and the
\* goodness-of-fit evaluation come after the last optimizer call.
C24_FitModes == []C24_ModeCalls /\ [][C24_Order]_vars

C24_Witness ==
  /\ kind = "fit" /\ pc = "fit_returned" /\ method = "randomize" /\ seed # NoSeed
  /\ randomize_calls = 1 /\ fitTo_calls = 1 /\ record # NoRecord

SeededStarts(s, idx) == IF s = NoSeed THEN Starts ELSE {Rng(s + idx)}

\* C25: restart i (from 0) of every attempt of robust_fit, the first and the
\* escalated ones, is randomized with seed s + i where s is the caller's
\* seed, and starts where the generator seeded with s + i puts it; with no
\* seed every restart is unseeded.
C25_RestartSeeds ==
  [][(pc = "robust_loop" /\ i' = i + 1) =>
       /\ last_seed' = (IF seed = NoSeed THEN NoSeed ELSE seed + i)
       /\ \E p \in SeededStarts(seed, i) : free_params_vals' = Fitted(p)]_vars

C25_Witness ==
  /\ pc = "robust_loop" /\ Len(attempts) >= 2 /\ seed # NoSeed
  /\ i = attempts[Len(attempts) - 1] /\ last_seed = seed + i - 1

\* C27: when fit() is called with fit_ranges = (), the optimiser runs over
\* the full domain of x and the goodness-of-fit dof is the total number of
\* bins of x minus the model's dof.
C27_EmptyRangesAgree ==
  (kind = "fit" /\ pc = "fit_returned" /\ fit_ranges = <<>>) =>
     /\ fit_ranges_str = <<<<0, XMax(nbins)>>>>
     /\ record.gof_pval = Prob(record.twoNLL, nbins - get_dof(pdf.name, pdf.order))

\* C28: no attempt of robust_fit makes more than max_n_fits restarts, for
\* every initial n_fits with 2 <= n_fits <= max_n_fits.
C28_AttemptsWithinCeiling ==
  (2 <= n_fits0 /\ n_fits0 <= max_n_fits) =>
     \A k \in 1..Len(attempts) : attempts[k] <= max_n_fits

(***************************************************************************)
(* Claims on the records of the search, the envelope and the end of the    *)
(* search (Spec, FairSpec)                                                 *)
(***************************************************************************)
\* C22: when shouldKeepGoing sees a last record whose dof equals max_dof the
\* search stops and the record stays; when the last record's dof is greater
\* than max_dof exactly that record is removed and the search stops; in every
\* other case the sequence is left as it was.
C22_Overshoot ==
  [][mpc = "check" =>
       IF results = <<>> THEN results' = results /\ mpc' = "fit"
       ELSE IF Last(results).dof = max_dof THEN results' = results /\ mpc' = "return"
       ELSE IF Last(results).dof > max_dof
            THEN results' = Front(results) /\ mpc' = "return"
       ELSE results' = results]_vars

C22_Witness ==
  /\ mpc = "return" /\ Len(results) >= 1 /\ order = Len(results) + 2
  /\ Last(results).dof < max_dof

Searching == mpc \in {"check", "fit", "ftest", "return"}

\* C23: getResults fits the orders 1, 2, 3, ... one per iteration, so that
\* the i-th record appended has order i; the first record's ftest_pval is 0;
\* every record has its ftest_pval when the stopping rule is evaluated.
C23_ConsecutiveOrders ==
  Searching =>
     /\ \A k \in 1..Len(results) : results[k].order = k /\ results[k].pdf.order = k
     /\ mpc = "fit" => order = Len(results) + 1
     /\ mpc = "ftest" => order = Len(results)
     /\ mpc = "check" =>
          /\ order = Len(results) + 1
          /\ \A k \in 1..Len(results) : results[k].ftest_pval # NoPval
          /\ results # <<>> => results[1].ftest_pval = 0

C23_Witness ==
  /\ mpc = "check" /\ Len(results) >= 3 /\ results[3].order = 3
  /\ results[2].ftest_pval > 0 /\ results[1].ftest_pval = 0

SameFit(a, b) ==
  /\ a.pdf = b.pdf /\ a.order = b.order /\ a.dof = b.dof
  /\ a.twoNLL = b.twoNLL /\ a.gof_pval = b.gof_pval

ShorterLen(a, b) == IF Len(a) < Len(b) THEN Len(a) ELSE Len(b)

\* C26: after a record is appended its order, dof, twoNLL and gof_pval never
\* change; its ftest_pval is written only by getResults right after the
\* record's fit and by filterByGof, which sets it to 0 on the first record
\* of each family that passes the goodness-of-fit cut; filterResults neither
\* removes nor reorders the elements of the sequences it is given.
C26_WriteOnce ==
  [][/\ fam' = fam =>
          \A k \in 1..ShorterLen(results, results') :
             /\ SameFit(results[k], results'[k])
             /\ results'[k].ftest_pval # results[k].ftest_pval =>
                  (mpc = "ftest" /\ k = Len(results) /\ results[k].ftest_pval = NoPval)
     /\ Len(all_results') >= Len(all_results)
     /\ \A f \in 1..Len(all_results) :
          /\ Len(all_results'[f]) = Len(all_results[f])
          /\ \A k \in 1..Len(all_results[f]) :
               /\ SameFit(all_results[f][k], all_results'[f][k])
               /\ all_results'[f][k].ftest_pval # all_results[f][k].ftest_pval =>
                    /\ mpc = "filter_gof"
                    /\ k = FirstPassing(all_results[f])
                    /\ all_results'[f][k].ftest_pval = 0
     /\ Len(all_results') > Len(all_results) => Last(all_results') = results]_vars

C26_Witness ==
  /\ mpc = "filter_ftest"
  /\ \E f \in 1..Len(all_results) : \E k \in 2..Len(all_results[f]) :
       /\ all_results[f][k].ftest_pval = 0
       /\ FtestPval(SubSeq(all_results[f], 1, k)) > 0
       /\ \E j \in (k + 1)..Len(all_results[f]) : PassesGof(all_results[f][j])

EnvelopeEnded == Len(filtered) = Len(pdf_names) /\ mpc \in {"done", "raised"}

\* C29: when createEnvelope returns, the active index is an index of the
\* candidate list (0 <= index < number of candidates); when no record of any
\* family survives the filter it raises instead of returning an envelope.
C29_ValidIndexOrError ==
  /\ mpc = "done" =>
       /\ Len(multipdf) = Len(Flatten(filtered))
       /\ pdfIndex \in 0..(Len(multipdf) - 1)
  /\ (EnvelopeEnded /\ Flatten(filtered) = <<>>) =>
       (mpc = "raised" /\ merr = "ValueError" /\ pdfIndex = NoIndex /\ multipdf = <<>>)

C29_Witness ==
  /\ EnvelopeEnded /\ Flatten(filtered) = <<>> /\ mpc = "raised"
  /\ \E f \in 1..Len(all_results) : all_results[f] # <<>>

C30_AtMostMaxOrderPlusOne == Searching => order \in 1..(max_order(pdf_names[fam]) + 1)

\* C30: for every family, max_dof and do_all_orders, getResults ends, by
\* returning or by raising, provided each call of fit ends, and it asks the
\* constructor for at most max_order + 1 instances (orders 1..max_order + 1).
C30_SearchTerminates ==
  /\ []C30_AtMostMaxOrderPlusOne
  /\ \A f \in 1..2 :
       (mpc = "check" /\ fam = f /\ results = <<>> /\ order = 1)
          ~> (fam = f /\ mpc \in {"return", "raised"})

C30_Witness ==
  /\ mpc = "raised" /\ merr = "ValueError" /\ filtered = <<>>
  /\ order = max_order(pdf_names[fam]) + 1 /\ Len(results) = max_order(pdf_names[fam])
====
